---- MODULE Spec2Model ----
(***************************************************************************)
(* dodo: a client-side toolkit over a single-table key-value store.        *)
(* The model covers the store facade (packages/dodo/src/dodo.ts), the      *)
(* entity layer (entity.ts), the key transformers (keys.ts) and the        *)
(* built-in plugins (plugins.ts).  The table of the external store is the  *)
(* only mutable state; every facade or entity call is one action whose     *)
(* inputs are drawn from small sets and whose outcome (result, error,      *)
(* ordered event log) is recorded in the variable last.                    *)
(***************************************************************************)
EXTENDS Integers, Sequences, FiniteSets, TLC

VARIABLES
    table,   \* the store: physical key |-> stored item (absent keys are not in the domain)
    config,  \* the key transformer and the two plugin lists, fixed at construction
    last,    \* the most recent call: operation, arguments, outcome and event log
    inflight \* per concurrent caller: the facade update it has in flight, step by step

vars == <<table, config, last, inflight>>

(***************************************************************************)
(* Bounds                                                                  *)
(***************************************************************************)
\* Wall-clock readings new Date() can return are 0..MaxClock.
MaxClock == 1

(***************************************************************************)
(* JavaScript values.  Objects are functions from field names to strings;  *)
(* the tag keeps undefined, null, strings and objects apart.               *)
(***************************************************************************)
Undefined == [kind |-> "undefined"]
Null == [kind |-> "null"]
Thrown == [kind |-> "thrown"]
Str(s) == [kind |-> "string", val |-> s]
Obj(f) == [kind |-> "object", val |-> f]

EmptyObj == <<>>

IsObj(v) == v.kind = "object"

\* !v for the values that occur (no empty strings occur)
Falsy(v) == v.kind \in {"undefined", "null"}

\* a ?? b
Coalesce(a, b) == IF a.kind \in {"undefined", "null"} THEN b ELSE a

\* { ...f, ...g } on two plain objects
Merge(f, g) ==
    [k \in (DOMAIN f) \cup (DOMAIN g) |-> IF k \in DOMAIN g THEN g[k] ELSE f[k]]

\* the object without the fields in ks: const { pk, sk, ...data } = item
Without(f, ks) == [k \in (DOMAIN f) \ ks |-> f[k]]

\* the characters of the identifiers in use, as { ..."u1" } enumerates them
IdChars(s) ==
    CASE s = "u1" -> [k \in {"0", "1"} |-> IF k = "0" THEN "u" ELSE "1"]
      [] s = "u2" -> [k \in {"0", "1"} |-> IF k = "0" THEN "u" ELSE "2"]
      [] OTHER -> EmptyObj

\* the own enumerable properties a spread { ...v } copies
Spread(v) ==
    CASE v.kind = "object" -> v.val
      [] v.kind = "string" -> IdChars(v.val)
      [] OTHER -> EmptyObj

\* `${item.f}` in a template literal
Field(f, k) == IF k \in DOMAIN f THEN f[k] ELSE "undefined"

\* new Date().toISOString() at clock reading n
IsoString(n) == "T" \o ToString(n)

\* a + 1 for the numeric strings in use
PlusOne(f) ==
    IF "a" \in DOMAIN f
    THEN CASE f["a"] = "1" -> "2" [] f["a"] = "2" -> "3" [] OTHER -> "NaN"
    ELSE "NaN"

(***************************************************************************)
(* Key transformers (keys.ts)                                              *)
(***************************************************************************)
EntityType == "USER"

DodoKey(pk, sk) == [k \in {"pk", "sk"} |-> IF k = "pk" THEN pk ELSE sk]

KeyOf(item) == DodoKey(item["pk"], item["sk"])

KeyKinds == {"single", "tenant", "hierarchy", "custom", "customNoReverse"}

\* mutant: the sort key of the single pattern repeats the id separator only
SingleSortBare(type) == type \o "#"

\* sk: `${type}#META`
SingleSort(type) == type \o "#META"

\* keys.<kind>(type).toKey(item); the custom transformers are built with
\* item => ({ pk: `CUSTOM#${item.id}`, sk: "META" })
toKeyOf(kind, type, item) ==
    CASE kind = "single" ->
            DodoKey(type \o "#" \o Field(item, "id"), SingleSort(type))
      [] kind = "tenant" ->
            DodoKey("TENANT#" \o Field(item, "tenantId"),
                    type \o "#" \o Field(item, "id"))
      [] kind = "hierarchy" ->
            DodoKey(type \o "#" \o Field(item, "parentId"),
                    type \o "#" \o Field(item, "id"))
      [] OTHER ->
            DodoKey("CUSTOM#" \o Field(item, "id"), "META")

\* keys.<kind>(type).fromId(id): the key, or the error it throws; "custom" is
\* built with id => ({ pk: `CUSTOM#${id}`, sk: "META" }), "customNoReverse"
\* without a reverse function
fromIdOf(kind, type, id) ==
    CASE kind = "single" ->
            [ok |-> TRUE, err |-> "", key |-> DodoKey(type \o "#" \o id, SingleSort(type))]
      [] kind = "tenant" ->
            [ok |-> FALSE, err |-> "UnsupportedReverseMapping", key |-> EmptyObj]
      [] kind = "hierarchy" ->
            [ok |-> FALSE, err |-> "UnsupportedReverseMapping", key |-> EmptyObj]
      [] kind = "custom" ->
            [ok |-> TRUE, err |-> "", key |-> DodoKey("CUSTOM#" \o id, "META")]
      [] OTHER ->
            [ok |-> FALSE, err |-> "NotImplemented", key |-> EmptyObj]

\* the transformer of the modelled entity: keys.<kind>("USER")
toKey(kind, item) == toKeyOf(kind, EntityType, item)

\* mutant: every transformer derives the key of the single pattern from an id
fromIdGuessed(kind, id) == fromIdOf("single", EntityType, id)

fromId(kind, id) == fromIdOf(kind, EntityType, id)

(***************************************************************************)
(* The validation collaborator: schema.parse of a z.object schema with a   *)
(* required id; unknown fields are stripped, a non-object or a missing id  *)
(* fails.                                                                  *)
(***************************************************************************)
SchemaFields ==
    {"id", "name", "a", "b", "deleted", "createdAt", "updatedAt", "deletedAt",
     "tenantId", "parentId"}

SchemaValid(v) == IsObj(v) /\ "id" \in DOMAIN v.val

SchemaParse(v) ==
    IF SchemaValid(v)
    THEN [ok |-> TRUE, val |-> Obj([k \in (DOMAIN v.val) \cap SchemaFields |-> v.val[k]])]
    ELSE [ok |-> FALSE, val |-> Undefined]

(***************************************************************************)
(* The event log of one call: every plugin handler invocation, schema      *)
(* validation and transport command, in the order they happen.             *)
(***************************************************************************)
Ev(layer, name, idx, args, ret) ==
    [layer |-> layer, name |-> name, idx |-> idx, args |-> args, ret |-> ret]

(***************************************************************************)
(* Outcomes of a call or of a step of it: ok, the error kind, the value,   *)
(* the table afterwards and the events, in order.  Then(r, rest) is        *)
(* "await r; rest": rest runs only when r succeeded, and a failure of r    *)
(* ends the enclosing call.                                                *)
(***************************************************************************)
Done(ret, tbl, log) == [ok |-> TRUE, err |-> "", ret |-> ret, tbl |-> tbl, log |-> log]

Fail(err, tbl, log) ==
    [ok |-> FALSE, err |-> err, ret |-> Undefined, tbl |-> tbl, log |-> log]

After(log, r) == [r EXCEPT !.log = log \o @]

Then(r, rest) == IF r.ok THEN After(r.log, rest) ELSE r

(***************************************************************************)
(* Entity-level plugins (types.ts EntityPlugin; plugins.ts timestamps and  *)
(* softDelete; setA, setB, audit and boom are caller-written plugins).     *)
(***************************************************************************)
EntityPhases ==
    {"beforeCreate", "afterCreate", "beforeGet", "afterGet", "beforeUpdate",
     "afterUpdate", "beforeDelete", "afterDelete"}

\* plugin[phase] is a function
EntityHandles(plugin, phase) ==
    CASE plugin = "timestamps" -> phase \in {"beforeCreate", "beforeUpdate"}
      [] plugin = "softDelete" -> phase \in {"beforeUpdate", "afterGet"}
      [] plugin = "setA" -> phase \in {"beforeCreate", "beforeUpdate"}
      [] plugin = "setB" -> phase \in {"beforeCreate", "beforeUpdate"}
      [] plugin = "audit" -> phase \in EntityPhases
      [] plugin = "boom" -> phase \in {"beforeCreate", "beforeUpdate", "afterGet"}
      [] OTHER -> FALSE

\* timestamps(): beforeCreate(item), beforeUpdate(_, updates)
Timestamps(phase, args, now) ==
    IF phase = "beforeCreate"
    THEN Obj(Merge(Spread(args[1]),
                   [k \in {"createdAt", "updatedAt"} |-> IsoString(now)]))
    ELSE Obj(Merge(Spread(args[2]), [k \in {"updatedAt"} |-> IsoString(now)]))

\* softDelete(): beforeUpdate(_id, updates), afterGet(item)
SoftDelete(phase, args, now) ==
    IF phase = "beforeUpdate"
    THEN LET updates == args[2] IN
         IF IsObj(updates) /\ "deleted" \in DOMAIN updates.val
                           /\ updates.val["deleted"] = "true"
         THEN Obj(Merge(updates.val, [k \in {"deletedAt"} |-> IsoString(now)]))
         ELSE updates
    ELSE LET item == args[1] IN
         IF IsObj(item) /\ "deleted" \in DOMAIN item.val /\ item.val["deleted"] = "true"
         THEN Null
         ELSE item

\* P1 of the pipeline example: sets a = 1
SetA(phase, args) ==
    IF phase = "beforeCreate"
    THEN Obj(Merge(Spread(args[1]), [k \in {"a"} |-> "1"]))
    ELSE Obj(Merge(Spread(args[2]), [k \in {"a"} |-> "1"]))

\* P2 of the pipeline example: reads a, sets b = a + 1
SetB(phase, args) ==
    LET src == IF phase = "beforeCreate" THEN Spread(args[1]) ELSE Spread(args[2])
    IN  Obj(Merge(src, [k \in {"b"} |-> PlusOne(src)]))

\* the value a handler returns, or Thrown when it throws
EntityHandler(plugin, phase, args, now) ==
    CASE plugin = "timestamps" -> Timestamps(phase, args, now)
      [] plugin = "softDelete" -> SoftDelete(phase, args, now)
      [] plugin = "setA" -> SetA(phase, args)
      [] plugin = "setB" -> SetB(phase, args)
      [] plugin = "audit" -> Undefined
      [] OTHER -> Thrown

\* mutant: every handler is called with the raw first argument (parallel
\* composition)
HandlerInputRaw(value, args) == args[1]

\* the first argument a handler is called with: fn(value, ...args.slice(1))
HandlerInput(value, args) == value

\* mutant: a failing handler is ignored and the loop goes on
HandlerNeverAborts(transformed) == FALSE

\* a rejected await leaves the loop and the enclosing async function
HandlerAborts(transformed) == transformed = Thrown

\* mutant: the handler's result always replaces the running value
NextValueAlways(transformed, value) == transformed

\* value = transformed ?? value
NextValue(transformed, value) == Coalesce(transformed, value)

\* one handler call of entity.ts applyPlugins: await fn(value, ...args.slice(1))
entityCall(plugin, i, phase, callArgs, now, tbl) ==
    IF HandlerAborts(EntityHandler(plugin, phase, callArgs, now))
    THEN Fail("PluginFailure", tbl, <<Ev("entity", phase, i, callArgs, Thrown)>>)
    ELSE Done(EntityHandler(plugin, phase, callArgs, now), tbl,
              <<Ev("entity", phase, i, callArgs,
                   EntityHandler(plugin, phase, callArgs, now))>>)

\* entity.ts applyPlugins(phase, ...args), from plugin i on
RECURSIVE entityApplyFrom(_, _, _, _, _, _, _)
entityApplyFrom(plugins, phase, i, value, args, now, tbl) ==
    IF i > Len(plugins)
    THEN Done(value, tbl, <<>>)
    ELSE IF ~EntityHandles(plugins[i], phase)
    THEN entityApplyFrom(plugins, phase, i + 1, value, args, now, tbl)
    ELSE LET transformed == entityCall(plugins[i], i, phase,
                                       <<HandlerInput(value, args)>> \o Tail(args),
                                       now, tbl)
         IN  Then(transformed,
                  entityApplyFrom(plugins, phase, i + 1,
                                  NextValue(transformed.ret, value), args, now, tbl))

entityApplyPlugins(plugins, phase, args, now, tbl) ==
    entityApplyFrom(plugins, phase, 1, args[1], args, now, tbl)

(***************************************************************************)
(* Store-level plugins (types.ts DodoPlugin; plugins.ts caseTransform and  *)
(* encryption; mute, watch, log and boomStore are caller-written plugins). *)
(***************************************************************************)
StorePhases ==
    {"onBeforePut", "onAfterGet", "onBeforeQuery", "onAfterQuery", "onBeforeDelete"}

StoreHandles(plugin, phase) ==
    CASE plugin = "caseTransform" -> phase \in {"onBeforePut", "onAfterGet"}
      [] plugin = "encryption" -> phase \in {"onBeforePut", "onAfterGet"}
      [] plugin = "log" -> phase \in {"onAfterGet"}
      [] plugin = "mute" -> phase \in {"onBeforePut", "onAfterGet"}
      [] plugin = "watch" -> phase \in StorePhases
      [] plugin = "boomStore" -> phase \in {"onBeforePut"}
      [] plugin = "defaults" -> phase \in {"onBeforeQuery"}
      [] plugin = "paged" -> phase \in {"onBeforeQuery"}
      [] OTHER -> FALSE

\* key.replace(/[A-Z]/g, l => "_" + l.toLowerCase()) on the field names in use
SnakeKey(k) ==
    CASE k = "createdAt" -> "created_at"
      [] k = "updatedAt" -> "updated_at"
      [] k = "deletedAt" -> "deleted_at"
      [] k = "tenantId" -> "tenant_id"
      [] k = "parentId" -> "parent_id"
      [] OTHER -> k

\* key.replace(/_([a-z])/g, (_, l) => l.toUpperCase()) on the field names in use
CamelKey(k) ==
    CASE k = "created_at" -> "createdAt"
      [] k = "updated_at" -> "updatedAt"
      [] k = "deleted_at" -> "deletedAt"
      [] k = "tenant_id" -> "tenantId"
      [] k = "parent_id" -> "parentId"
      [] OTHER -> k

\* Object.keys(obj).reduce(...): every field under its renamed key (no two of
\* the field names in use are renamed to the same key within one object)
SnakeKeys(f) ==
    [k2 \in {SnakeKey(k) : k \in DOMAIN f} |-> f[CHOOSE k \in DOMAIN f : SnakeKey(k) = k2]]

CamelKeys(f) ==
    [k2 \in {CamelKey(k) : k \in DOMAIN f} |-> f[CHOOSE k \in DOMAIN f : CamelKey(k) = k2]]

toSnakeCase(v) == IF IsObj(v) THEN Obj(SnakeKeys(v.val)) ELSE v

toCamelCase(v) == IF IsObj(v) THEN Obj(CamelKeys(v.val)) ELSE v

\* the fields the encryption plugin is built with: encryption(["name"])
EncryptedFields == {"name"}

\* the field values that get encrypted
Plaintexts == {"n1", "n2"}

\* Buffer.from(JSON.stringify(value)).toString("base64")
encrypt(value) == "b64(" \o value \o ")"

\* JSON.parse(Buffer.from(encrypted, "base64").toString()), or the argument
\* itself when that throws (the argument is not an encrypted value)
decrypt(encrypted) ==
    IF \E v \in Plaintexts : encrypt(v) = encrypted
    THEN CHOOSE v \in Plaintexts : encrypt(v) = encrypted
    ELSE encrypted

\* encryption(fields).onBeforePut / onAfterGet: { ...item } with every listed
\* field that is present encrypted / decrypted
Encryption(phase, item) ==
    Obj([k \in DOMAIN Spread(item) |->
            IF k \in EncryptedFields
            THEN IF phase = "onBeforePut" THEN encrypt(Spread(item)[k])
                 ELSE decrypt(Spread(item)[k])
            ELSE Spread(item)[k]])

StoreHandler(plugin, phase, data) ==
    CASE plugin = "caseTransform" ->
            IF phase = "onBeforePut" THEN toSnakeCase(data) ELSE toCamelCase(data)
      [] plugin = "encryption" -> Encryption(phase, data)
      [] plugin = "log" -> Undefined
      [] plugin = "mute" -> Undefined
      [] plugin = "watch" -> data
      [] plugin = "defaults" -> Obj(Spread(data))
      [] plugin = "paged" -> Obj(Merge(Spread(data), [limit |-> 1]))
      [] OTHER -> Thrown

\* result = await fn(result)
StoreNextValue(returned, result) == returned

\* one handler call of dodo.ts applyPlugins: await fn(result)
storeCall(plugin, i, phase, data, tbl) ==
    IF HandlerAborts(StoreHandler(plugin, phase, data))
    THEN Fail("PluginFailure", tbl, <<Ev("store", phase, i, <<data>>, Thrown)>>)
    ELSE Done(StoreHandler(plugin, phase, data), tbl,
              <<Ev("store", phase, i, <<data>>, StoreHandler(plugin, phase, data))>>)

\* dodo.ts applyPlugins(phase, data), from plugin i on
RECURSIVE applyFrom(_, _, _, _, _)
applyFrom(plugins, phase, i, result, tbl) ==
    IF i > Len(plugins)
    THEN Done(result, tbl, <<>>)
    ELSE IF ~StoreHandles(plugins[i], phase)
    THEN applyFrom(plugins, phase, i + 1, result, tbl)
    ELSE LET returned == storeCall(plugins[i], i, phase, result, tbl)
         IN  Then(returned,
                  applyFrom(plugins, phase, i + 1,
                            StoreNextValue(returned.ret, result), tbl))

applyPlugins(plugins, phase, data, tbl) == applyFrom(plugins, phase, 1, data, tbl)

(***************************************************************************)
(* The transport collaborator: Get, Put and Delete commands on the table.  *)
(***************************************************************************)
\* response.Item of a GetCommand
TransportGet(tbl, key) == IF key \in DOMAIN tbl THEN Obj(tbl[key]) ELSE Undefined

\* a PutCommand is accepted when Item is an object carrying both key attributes
PutAccepted(item) == IsObj(item) /\ {"pk", "sk"} \subseteq DOMAIN item.val

TransportPut(tbl, item) ==
    [k \in (DOMAIN tbl) \cup {KeyOf(item.val)} |->
        IF k = KeyOf(item.val) THEN item.val ELSE tbl[k]]

\* a DeleteCommand carries no condition: it succeeds whether or not the key exists
TransportDelete(tbl, key) == [k \in (DOMAIN tbl) \ {key} |-> tbl[k]]

(***************************************************************************)
(* Store facade (dodo.ts)                                                  *)
(***************************************************************************)
\* mutant: the read is issued a second time before its result is used
sendGetAgain(tbl, key) ==
    Done(TransportGet(tbl, key), tbl,
         <<Ev("transport", "Get", 0, <<Obj(key)>>, TransportGet(tbl, key)),
           Ev("transport", "Get", 0, <<Obj(key)>>, TransportGet(tbl, key))>>)

\* client.send(new GetCommand({ Key: key }))
sendGet(tbl, key) ==
    Done(TransportGet(tbl, key), tbl,
         <<Ev("transport", "Get", 0, <<Obj(key)>>, TransportGet(tbl, key))>>)

\* client.send(new PutCommand({ Item: item }))
sendPut(tbl, item) ==
    IF PutAccepted(item)
    THEN Done(Undefined, TransportPut(tbl, item),
              <<Ev("transport", "Put", 0, <<item>>, Undefined)>>)
    ELSE Fail("TransportFailure", tbl, <<Ev("transport", "Put", 0, <<item>>, Thrown)>>)

\* mutant: the delete is conditional on the key holding a record
sendDeleteExisting(tbl, key) ==
    IF key \in DOMAIN tbl
    THEN Done(Undefined, TransportDelete(tbl, key),
              <<Ev("transport", "Delete", 0, <<Obj(key)>>, Undefined)>>)
    ELSE Fail("NotFound", tbl, <<Ev("transport", "Delete", 0, <<Obj(key)>>, Thrown)>>)

\* client.send(new DeleteCommand({ Key: key }))
sendDelete(tbl, key) ==
    Done(Undefined, TransportDelete(tbl, key),
         <<Ev("transport", "Delete", 0, <<Obj(key)>>, Undefined)>>)

\* if (!response.Item) return null; return applyPlugins("onAfterGet", response.Item)
afterGet(cfg, tbl, item) ==
    IF Falsy(item) THEN Done(Null, tbl, <<>>)
    ELSE applyPlugins(cfg.plugins, "onAfterGet", item, tbl)

\* dodo.get(key)
dodoGet(cfg, tbl, key) ==
    LET response == sendGet(tbl, key)
    IN  Then(response, afterGet(cfg, tbl, response.ret))

\* dodo.put(item)
dodoPut(cfg, tbl, item) ==
    LET transformed == applyPlugins(cfg.plugins, "onBeforePut", item, tbl)
    IN  Then(transformed, sendPut(tbl, transformed.ret))

\* dodo.delete(key)
dodoDelete(cfg, tbl, key) == sendDelete(tbl, key)

\* mutant: the key is not re-asserted after the updates
MergeUpdateNoKey(existing, updates, key) == Merge(Spread(existing), Spread(updates))

\* const merged = { ...existing, ...updates, ...key }
MergeUpdate(existing, updates, key) == Merge(Merge(Spread(existing), Spread(updates)), key)

\* mutant: the existence check is dropped (update becomes an upsert)
NotFoundNever(existing) == FALSE

\* if (!existing) throw new Error(`Item not found: ...`)
NotFound(existing) == Falsy(existing)

\* dodo.update(key, updates)
dodoUpdate(cfg, tbl, key, updates) ==
    LET existing == dodoGet(cfg, tbl, key)
    IN  Then(existing,
             IF NotFound(existing.ret)
             THEN Fail("NotFound", tbl, <<>>)
             ELSE dodoPut(cfg, tbl, Obj(MergeUpdate(existing.ret, updates, key))))

(***************************************************************************)
(* Transactions (dodo.ts transaction and the transport's TransactWrite)    *)
(***************************************************************************)
\* one entry of TransactItems: Put, Update, Delete or ConditionCheck
TransactItem(op, key, item) == [op |-> op, Key |-> key, Item |-> item]

\* the key an entry of TransactItems addresses
TargetKey(t) == IF t.op = "Put" THEN KeyOf(Spread(t.Item)) ELSE t.Key

\* the request is rejected as a whole when it is empty, when a Put item lacks
\* a key attribute or when two entries address the same record
TransactValid(titems) ==
    /\ Len(titems) > 0
    /\ \A i \in DOMAIN titems : titems[i].op = "Put" => PutAccepted(titems[i].Item)
    /\ \A i, j \in DOMAIN titems : i # j => TargetKey(titems[i]) # TargetKey(titems[j])

\* mutant: the store evaluates no condition
ConditionsHoldUnchecked(tbl, titems) == TRUE

\* ConditionExpression: "attribute_exists(pk)" on every ConditionCheck entry
ConditionsHold(tbl, titems) ==
    \A i \in DOMAIN titems :
        titems[i].op = "ConditionCheck" => titems[i].Key \in DOMAIN tbl

\* UpdateExpression "SET #data = :data": the record at Key (created when
\* absent) gets the attribute data
SetData(tbl, key, data) ==
    Merge(IF key \in DOMAIN tbl THEN tbl[key] ELSE key, [k \in {"data"} |-> data])

\* the effect of one entry on the table
ApplyTransactItem(tbl, t) ==
    CASE t.op = "Put" -> TransportPut(tbl, t.Item)
      [] t.op = "Update" ->
            [k \in (DOMAIN tbl) \cup {t.Key} |->
                IF k = t.Key THEN SetData(tbl, t.Key, t.Item) ELSE tbl[k]]
      [] t.op = "Delete" -> TransportDelete(tbl, t.Key)
      [] OTHER -> tbl

RECURSIVE ApplyTransactFrom(_, _, _)
ApplyTransactFrom(tbl, titems, i) ==
    IF i > Len(titems) THEN tbl
    ELSE ApplyTransactFrom(ApplyTransactItem(tbl, titems[i]), titems, i + 1)

\* client.send(new TransactWriteCommand({ TransactItems })): all entries are
\* applied, or none when a condition fails
sendTransactWrite(tbl, titems) ==
    IF ~TransactValid(titems)
    THEN Fail("TransportFailure", tbl,
              <<Ev("transport", "TransactWrite", 0, <<titems>>, Thrown)>>)
    ELSE IF ~ConditionsHold(tbl, titems)
    THEN Fail("TransactionAborted", tbl,
              <<Ev("transport", "TransactWrite", 0, <<titems>>, Thrown)>>)
    ELSE Done(Undefined, ApplyTransactFrom(tbl, titems, 1),
              <<Ev("transport", "TransactWrite", 0, <<titems>>, Undefined)>>)

\* the TransactItems entry pushed for one item of the caller's list; a put
\* item goes through the onBeforePut handlers first
transactEntry(cfg, tbl, item) ==
    CASE "put" \in DOMAIN item ->
            LET transformed == applyPlugins(cfg.plugins, "onBeforePut", item.put, tbl)
            IN  Then(transformed,
                     Done(TransactItem("Put", EmptyObj, transformed.ret), tbl, <<>>))
      [] "update" \in DOMAIN item ->
            Done(TransactItem("Update", item.update.key, item.update.updates), tbl, <<>>)
      [] "delete" \in DOMAIN item ->
            Done(TransactItem("Delete", item.delete, Undefined), tbl, <<>>)
      [] OTHER ->
            Done(TransactItem("ConditionCheck", item.conditionCheck.key, Undefined),
                 tbl, <<>>)

\* for (const item of items) { ... TransactItems.push(...) }, from item i on;
\* the result carries the TransactItems built
RECURSIVE transactItemsFrom(_, _, _, _, _)
transactItemsFrom(cfg, tbl, items, i, titems) ==
    IF i > Len(items)
    THEN Done(titems, tbl, <<>>)
    ELSE LET entry == transactEntry(cfg, tbl, items[i])
         IN  Then(entry,
                  transactItemsFrom(cfg, tbl, items, i + 1, Append(titems, entry.ret)))

\* dodo.transaction(items)
transaction(cfg, tbl, items) ==
    LET built == transactItemsFrom(cfg, tbl, items, 1, <<>>)
    IN  Then(built, sendTransactWrite(tbl, built.ret))

(***************************************************************************)
(* Entity layer (entity.ts)                                                *)
(***************************************************************************)
\* schema.parse(v)
parse(v, tbl) ==
    IF SchemaParse(v).ok
    THEN Done(SchemaParse(v).val, tbl, <<Ev("schema", "parse", 0, <<v>>, SchemaParse(v).val)>>)
    ELSE Fail("ValidationFailed", tbl, <<Ev("schema", "parse", 0, <<v>>, Thrown)>>)

\* keys.fromId(id)
keyFromId(cfg, id, tbl) ==
    IF fromId(cfg.keys, id).ok
    THEN Done(Obj(fromId(cfg.keys, id).key), tbl, <<>>)
    ELSE Fail(fromId(cfg.keys, id).err, tbl, <<>>)

\* { ...record, ...key }
WithKey(record, key) == Obj(Merge(Spread(record), key))

\* const key = keys.toKey(transformed); await dodo.put({ ...transformed, ...key })
putNew(cfg, tbl, transformed) ==
    dodoPut(cfg, tbl, WithKey(transformed, toKey(cfg.keys, Spread(transformed))))

\* entity.create(input)
create(cfg, tbl, input, now) ==
    LET validated == parse(input, tbl)
        transformed == entityApplyPlugins(cfg.entityPlugins, "beforeCreate",
                                          <<validated.ret>>, now, tbl)
        written == putNew(cfg, tbl, transformed.ret)
    IN  Then(validated,
        Then(transformed,
        Then(written,
             Done(transformed.ret, written.tbl, <<>>))))

\* return result !== undefined ? result : null
GetResult(result) == IF result = Undefined THEN Null ELSE result

\* const { pk, sk, ...data } = item; schema.parse(data); applyPlugins("afterGet", ...)
getFound(cfg, tbl, item, now) ==
    LET validated == parse(Obj(Without(Spread(item), {"pk", "sk"})), tbl)
        result == entityApplyPlugins(cfg.entityPlugins, "afterGet",
                                     <<validated.ret>>, now, tbl)
    IN  Then(validated,
        Then(result,
             Done(GetResult(result.ret), tbl, <<>>)))

\* entity.get(id)
get(cfg, tbl, id, now) ==
    LET key == keyFromId(cfg, id, tbl)
        item == dodoGet(cfg, tbl, key.ret.val)
    IN  Then(key,
        Then(item,
             IF Falsy(item.ret)
             THEN Done(Null, tbl, <<>>)
             ELSE getFound(cfg, tbl, item.ret, now)))

\* if (!current) throw new Error(`${config.name} ${id} not found`)
CurrentMissing(current) == Falsy(current)

\* const merged = { ...current, ...transformed }; schema.parse(merged);
\* dodo.put({ ...validated, ...keys.fromId(id) }); return validated
putMerged(cfg, tbl, id, current, transformed) ==
    LET validated == parse(Obj(Merge(Spread(current), Spread(transformed))), tbl)
        key == keyFromId(cfg, id, tbl)
        written == dodoPut(cfg, tbl, WithKey(validated.ret, key.ret.val))
    IN  Then(validated,
        Then(key,
        Then(written,
             Done(validated.ret, written.tbl, <<>>))))

\* entity.update(id, updates)
update(cfg, tbl, id, updates, now) ==
    LET current == get(cfg, tbl, id, now)
        transformed == entityApplyPlugins(cfg.entityPlugins, "beforeUpdate",
                                          <<Str(id), updates>>, now, tbl)
    IN  Then(current,
             IF CurrentMissing(current.ret)
             THEN Fail("NotFound", tbl, <<>>)
             ELSE Then(transformed,
                       putMerged(cfg, tbl, id, current.ret, transformed.ret)))

\* entity.delete(id)
deleteEntity(cfg, tbl, id) ==
    LET key == keyFromId(cfg, id, tbl)
    IN  Then(key, dodoDelete(cfg, tbl, key.ret.val))

\* the first rejection is the one Promise.all rejects with
FirstFailure(d, rest) ==
    IF d.ok THEN After(d.log, rest)
    ELSE [rest EXCEPT !.ok = FALSE, !.err = d.err, !.ret = Undefined, !.log = d.log \o @]

\* entity.deleteMany(ids): Promise.all over one deleteEntity per id; every
\* per-id call is issued whether or not another one rejects
RECURSIVE deleteManyFrom(_, _, _, _)
deleteManyFrom(cfg, tbl, ids, i) ==
    IF i > Len(ids)
    THEN Done(Undefined, tbl, <<>>)
    ELSE FirstFailure(deleteEntity(cfg, tbl, ids[i]),
                      deleteManyFrom(cfg, deleteEntity(cfg, tbl, ids[i]).tbl, ids, i + 1))

deleteMany(cfg, tbl, ids) == deleteManyFrom(cfg, tbl, ids, 1)

(***************************************************************************)
(* Configurations and inputs                                               *)
(***************************************************************************)
Cfg(k, ep, sp) == [keys |-> k, entityPlugins |-> ep, plugins |-> sp]

EntityPluginLists ==
    {<<>>, <<"softDelete">>, <<"timestamps", "softDelete">>, <<"setA", "setB">>,
     <<"setA", "audit", "setB">>, <<"audit">>, <<"setA", "boom", "setB">>}

StorePluginLists ==
    {<<>>, <<"caseTransform">>, <<"watch">>, <<"caseTransform", "watch">>,
     <<"encryption", "caseTransform">>, <<"log">>,
     <<"mute", "watch">>, <<"boomStore", "watch">>}

Configs ==
    {Cfg(k, <<>>, <<>>) : k \in KeyKinds}
        \cup {Cfg("single", ep, <<>>) : ep \in EntityPluginLists}
        \cup {Cfg("single", <<>>, sp) : sp \in StorePluginLists}
        \cup {Cfg("single", <<"audit">>, <<"watch">>)}

Ids == {"u1", "u2"}

\* the longest id list passed to deleteMany
MaxBatch == 2

IdLists == UNION {[1..n -> Ids] : n \in 0..MaxBatch}

Clock == 0..MaxClock

Rec1(k1, v1) == [k \in {k1} |-> v1]

\* a valid record per id, and one input the schema rejects (no id)
NewRecord(i) ==
    Merge(Merge(Rec1("id", i), Rec1("name", "n1")),
          Merge(Rec1("tenantId", "t1"), Rec1("parentId", "p1")))

CreateInputs == {Obj(NewRecord(i)) : i \in Ids} \cup {Obj(Rec1("name", "n1"))}

UpdateInputs == {Obj(Rec1("name", "n2")), Obj(Rec1("deleted", "true"))}

\* raw facade calls address the keys the configured key pattern gives the records
FacadeKeys == {toKey(config.keys, NewRecord(i)) : i \in Ids}

\* a record as the entity would store it, and one raw item without an id
RawItems ==
    {Obj(Merge(NewRecord(i), toKey(config.keys, NewRecord(i)))) : i \in Ids}
        \cup {Obj(Merge(Rec1("status", "active"), toKey(config.keys, NewRecord("u1"))))}

FacadeUpdateInputs == UpdateInputs \cup {Obj(Rec1("pk", "OTHER"))}

\* the keys of the two records
K1 == toKey(config.keys, NewRecord("u1"))

K2 == toKey(config.keys, NewRecord("u2"))

\* the condition a caller attaches to a condition check: status = "active"
StatusActive == [attribute |-> "status", eq |-> "active"]

TxPut(item) == [put |-> item]

TxUpdate(key, updates) == [update |-> [key |-> key, updates |-> updates]]

TxDelete(key) == [delete |-> key]

TxCheck(key, condition) == [conditionCheck |-> [key |-> key, condition |-> condition]]

\* the item lists passed to transaction
TxLists ==
    {<<TxCheck(K1, StatusActive), TxPut(Obj(Merge(NewRecord("u2"), K2)))>>,
     <<TxDelete(K2), TxCheck(K1, StatusActive)>>,
     <<TxUpdate(K1, Obj(Rec1("name", "n2"))), TxDelete(K2)>>,
     <<TxPut(Obj(Merge(Rec1("status", "active"), K1)))>>,
     <<TxDelete(K1), TxCheck(K1, StatusActive)>>}

(***************************************************************************)
(* The state machine                                                       *)
(***************************************************************************)
\* the record of a call; pre is the set of keys stored when the call began
Call(op, id, key, input, ids, r) ==
    [op |-> op, id |-> id, key |-> key, input |-> input, ids |-> ids,
     pre |-> DOMAIN table,
     ok |-> r.ok, err |-> r.err, ret |-> r.ret, log |-> r.log]

NoCall ==
    [op |-> "none", id |-> "", key |-> EmptyObj, input |-> Undefined, ids |-> <<>>,
     pre |-> {},
     ok |-> TRUE, err |-> "", ret |-> Undefined, log |-> <<>>]

\* the callers that issue facade updates concurrently
Callers == {"a", "b"}

\* a caller with no call in flight
Idle ==
    [pc |-> "idle", key |-> EmptyObj, updates |-> Undefined, existing |-> Undefined,
     ok |-> TRUE, err |-> ""]

Init ==
    /\ table = <<>>
    /\ config \in Configs
    /\ last = NoCall
    /\ inflight = [c \in Callers |-> Idle]

Finish(op, id, key, input, ids, r) ==
    /\ table' = r.tbl
    /\ last' = Call(op, id, key, input, ids, r)
    /\ UNCHANGED <<config, inflight>>

EntityKey(id) == fromId(config.keys, id).key

EntityCreate ==
    \E input \in CreateInputs, now \in Clock :
        Finish("entity.create", Field(Spread(input), "id"), EmptyObj, input, <<>>,
               create(config, table, input, now))

EntityGet ==
    \E id \in Ids, now \in Clock :
        Finish("entity.get", id, EntityKey(id), Undefined, <<>>,
               get(config, table, id, now))

EntityUpdate ==
    \E id \in Ids, updates \in UpdateInputs, now \in Clock :
        Finish("entity.update", id, EntityKey(id), updates, <<>>,
               update(config, table, id, updates, now))

EntityDelete ==
    \E id \in Ids :
        Finish("entity.delete", id, EntityKey(id), Undefined, <<>>,
               deleteEntity(config, table, id))

EntityDeleteMany ==
    \E ids \in IdLists :
        Finish("entity.deleteMany", "", EmptyObj, Undefined, ids,
               deleteMany(config, table, ids))

FacadeGet ==
    \E key \in FacadeKeys \cup DOMAIN table :
        Finish("dodo.get", "", key, Undefined, <<>>, dodoGet(config, table, key))

FacadePut ==
    \E item \in RawItems :
        Finish("dodo.put", "", KeyOf(item.val), item, <<>>, dodoPut(config, table, item))

FacadeDelete ==
    \E key \in FacadeKeys \cup DOMAIN table :
        Finish("dodo.delete", "", key, Undefined, <<>>, dodoDelete(config, table, key))

FacadeUpdate ==
    \E key \in FacadeKeys \cup DOMAIN table, updates \in FacadeUpdateInputs :
        Finish("dodo.update", "", key, updates, <<>>,
               dodoUpdate(config, table, key, updates))

FacadeTransaction ==
    \E items \in TxLists :
        Finish("dodo.transaction", "", EmptyObj, items, <<>>,
               transaction(config, table, items))

Next ==
    \/ EntityCreate
    \/ EntityGet
    \/ EntityUpdate
    \/ EntityDelete
    \/ EntityDeleteMany
    \/ FacadeGet
    \/ FacadePut
    \/ FacadeDelete
    \/ FacadeUpdate

Spec == Init /\ [][Next]_vars

(***************************************************************************)
(* Transactions next to plain puts and deletes                             *)
(***************************************************************************)
TxConfigs ==
    {Cfg("single", <<>>, sp) : sp \in {<<>>, <<"caseTransform">>, <<"boomStore", "watch">>}}
        \cup {Cfg("tenant", <<>>, <<>>)}

InitTx ==
    /\ table = <<>>
    /\ config \in TxConfigs
    /\ last = NoCall
    /\ inflight = [c \in Callers |-> Idle]

NextTx ==
    \/ FacadePut
    \/ FacadeDelete
    \/ FacadeTransaction

SpecTx == InitTx /\ [][NextTx]_vars

(***************************************************************************)
(* Scans (dodo.ts scan and the transport's Scan)                           *)
(***************************************************************************)
\* the order in which the store iterates over the records
ScanOrder == <<K1, K2>>

PositionOf(key) == CHOOSE i \in DOMAIN ScanOrder : ScanOrder[i] = key

\* Buffer.from(JSON.stringify(LastEvaluatedKey)).toString("base64")
encodeCursor(key) == "b64(" \o key["pk"] \o "," \o key["sk"] \o ")"

\* the cursor is the encoding of a key
Decodable(cursor) == \E i \in DOMAIN ScanOrder : encodeCursor(ScanOrder[i]) = cursor

\* JSON.parse(Buffer.from(cursor, "base64").toString())
decodeCursor(cursor) ==
    ScanOrder[CHOOSE i \in DOMAIN ScanOrder : encodeCursor(ScanOrder[i]) = cursor]

\* the keys a ScanCommand evaluates: the stored ones after ExclusiveStartKey,
\* in store order
KeysToScan(tbl, p) ==
    SelectSeq(ScanOrder,
              LAMBDA k : /\ k \in DOMAIN tbl
                         /\ "cursor" \in DOMAIN p
                               => PositionOf(k) > PositionOf(decodeCursor(p.cursor)))

\* how many of them it evaluates: all, or Limit when that is fewer
ScanLength(tbl, p) ==
    IF "limit" \in DOMAIN p /\ p.limit < Len(KeysToScan(tbl, p))
    THEN p.limit
    ELSE Len(KeysToScan(tbl, p))

\* the response of ScanCommand({ TableName, IndexName, Limit, ExclusiveStartKey });
\* LastEvaluatedKey is set when the scan stopped at Limit
TransportScan(tbl, p) ==
    [Items |-> [i \in 1..ScanLength(tbl, p) |-> Obj(tbl[KeysToScan(tbl, p)[i]])],
     Count |-> ScanLength(tbl, p),
     ScannedCount |-> ScanLength(tbl, p),
     LastEvaluatedKey |->
        IF "limit" \in DOMAIN p /\ ScanLength(tbl, p) = p.limit /\ p.limit > 0
        THEN Obj(KeysToScan(tbl, p)[ScanLength(tbl, p)])
        ELSE Undefined]

\* client.send(new ScanCommand(...))
sendScan(tbl, p) ==
    Done(TransportScan(tbl, p), tbl,
         <<Ev("transport", "Scan", 0, <<Obj(p)>>, Undefined)>>)

\* Promise.all(Items.map(item => applyPlugins("onAfterGet", item))), from item
\* i on; the result carries the transformed items.  The handlers of different
\* items do not affect one another; their events are logged item by item.
RECURSIVE itemsAfterGetFrom(_, _, _, _, _)
itemsAfterGetFrom(cfg, tbl, Items, i, items) ==
    IF i > Len(Items)
    THEN Done(items, tbl, <<>>)
    ELSE LET item == applyPlugins(cfg.plugins, "onAfterGet", Items[i], tbl)
         IN  Then(item,
                  itemsAfterGetFrom(cfg, tbl, Items, i + 1, Append(items, item.ret)))

\* const result: QueryResult<T> = { items, count, scannedCount, hasMore, cursor }
QueryResult(items, response) ==
    Obj([items |-> items,
         count |-> response.Count,
         scannedCount |-> response.ScannedCount,
         hasMore |-> ~Falsy(response.LastEvaluatedKey),
         cursor |-> IF Falsy(response.LastEvaluatedKey) THEN Undefined
                    ELSE Str(encodeCursor(response.LastEvaluatedKey.val))])

\* the scan from the ScanCommand on, for the parameters p the handlers produced
scanWith(cfg, tbl, p) ==
    LET response == sendScan(tbl, p)
        items == itemsAfterGetFrom(cfg, tbl, response.ret.Items, 1, <<>>)
    IN  Then(response,
        Then(items,
             applyPlugins(cfg.plugins, "onAfterQuery",
                          QueryResult(items.ret, response.ret), tbl)))

\* dodo.scan(params): reading transformed.index of undefined is a TypeError,
\* and a cursor that is not an encoded key makes JSON.parse throw
scan(cfg, tbl, params) ==
    LET transformed == applyPlugins(cfg.plugins, "onBeforeQuery", params, tbl)
    IN  Then(transformed,
             IF ~IsObj(transformed.ret)
             THEN Fail("TypeError", tbl, <<>>)
             ELSE IF /\ "cursor" \in DOMAIN transformed.ret.val
                     /\ ~Decodable(transformed.ret.val.cursor)
             THEN Fail("SyntaxError", tbl, <<>>)
             ELSE scanWith(cfg, tbl, transformed.ret.val))

\* the parameters passed to scan: none, {}, a limit, a predicate, a cursor
ScanParams ==
    {Undefined,
     Obj(EmptyObj),
     Obj([limit |-> 1]),
     Obj([filter |-> StatusActive]),
     Obj([limit |-> 1, cursor |-> encodeCursor(K1)]),
     Obj([cursor |-> "garbage"])}

FacadeScan ==
    \E params \in ScanParams :
        Finish("dodo.scan", "", EmptyObj, params, <<>>, scan(config, table, params))

ScanConfigs ==
    {Cfg("single", <<>>, sp) : sp \in {<<>>, <<"caseTransform">>, <<"watch">>}}

InitScan ==
    /\ table = <<>>
    /\ config \in ScanConfigs
    /\ last = NoCall
    /\ inflight = [c \in Callers |-> Idle]

NextScan ==
    \/ FacadePut
    \/ FacadeDelete
    \/ FacadeScan

SpecScan == InitScan /\ [][NextScan]_vars

(***************************************************************************)
(* The key transformers on their own: a transformer (kind and type) and an *)
(* item are at hand, toKey and fromId are applied to them.                 *)
(***************************************************************************)
EntityTypes == {"USER", "POST", "COMMENT"}

KeyItems ==
    {Merge(Merge(Rec1("id", i), Rec1("tenantId", t)), Rec1("parentId", p)) :
        i \in {"42", "p1"}, t \in {"t1", "t2"}, p \in {"c1"}}

InitKeys ==
    /\ table = <<>>
    /\ config = Cfg("single", <<>>, <<>>)
    /\ last \in {[NoCall EXCEPT !.input = [kind |-> k, type |-> t, item |-> item]] :
                    k \in KeyKinds, t \in EntityTypes, item \in KeyItems}
    /\ inflight = [c \in Callers |-> Idle]

\* transformer.toKey(item)
KeysToKey ==
    /\ last' = [last EXCEPT !.op = "keys.toKey", !.id = "", !.ok = TRUE, !.err = "",
                            !.ret = Obj(toKeyOf(last.input.kind, last.input.type,
                                                last.input.item))]
    /\ UNCHANGED <<table, config, inflight>>

\* transformer.fromId(item.id)
KeysFromId ==
    /\ last' = [last EXCEPT
                   !.op = "keys.fromId",
                   !.id = last.input.item["id"],
                   !.ok = fromIdOf(last.input.kind, last.input.type,
                                   last.input.item["id"]).ok,
                   !.err = fromIdOf(last.input.kind, last.input.type,
                                    last.input.item["id"]).err,
                   !.ret = Obj(fromIdOf(last.input.kind, last.input.type,
                                        last.input.item["id"]).key)]
    /\ UNCHANGED <<table, config, inflight>>

NextKeys ==
    \/ KeysToKey
    \/ KeysFromId

SpecKeys == InitKeys /\ [][NextKeys]_vars

(***************************************************************************)
(* The filter compiler (utils.ts buildFilterExpression).  A predicate tree *)
(* is a record with the fields of the FilterExpression it stands for; the  *)
(* expression is built as the sequence of the pieces of the template       *)
(* literals and rendered to one string at the end.                         *)
(***************************************************************************)
\* mutant: the counters go on from the compilation before
FirstCounterCarried == IF last.op = "buildFilterExpression" THEN 1 ELSE 0

\* let valueCounter = 0; let nameCounter = 0
FirstCounter == 0

\* const values = {}; const names = {}; the two counters
NewCompilation ==
    [names |-> <<>>, values |-> <<>>,
     nameCounter |-> FirstCounter, valueCounter |-> FirstCounter]

\* `#n${nameCounter}`, `:v${valueCounter}`
Placeholder(prefix, n) == prefix \o ToString(n)

\* const nameKey = `#n${nameCounter++}`; names[nameKey] = attr
WithName(st, attr) ==
    [st EXCEPT !.names = Merge(@, [k \in {Placeholder("#n", st.nameCounter)} |-> attr]),
               !.nameCounter = @ + 1]

\* const valKey = `:v${valueCounter++}`; values[valKey] = val
WithValue(st, val) ==
    [st EXCEPT !.values = Merge(@, [k \in {Placeholder(":v", st.valueCounter)} |-> val]),
               !.valueCounter = @ + 1]

\* what buildExpr returns (the pieces of the expression and the tables so
\* far), or that it threw
Built(parts, st) == [ok |-> TRUE, expr |-> parts, st |-> st]

Rejected(st) == [ok |-> FALSE, expr |-> <<>>, st |-> st]

\* Array.prototype.join on pieces
RECURSIVE JoinFrom(_, _, _)
JoinFrom(parts, sep, i) ==
    IF i > Len(parts) THEN <<>>
    ELSE (IF i > 1 THEN <<sep>> ELSE <<>>) \o parts[i] \o JoinFrom(parts, sep, i + 1)

\* f.in.forEach(val => { valKey = `:v${valueCounter++}`; values[valKey] = val;
\* inValues.push(valKey) }), from member i on
RECURSIVE inValuesFrom(_, _, _, _)
inValuesFrom(vals, i, st, inValues) ==
    IF i > Len(vals)
    THEN [st |-> st, inValues |-> inValues]
    ELSE inValuesFrom(vals, i + 1, WithValue(st, vals[i]),
                      Append(inValues, <<Placeholder(":v", st.valueCounter)>>))

\* the leaf branch of buildExpr: "attribute" in f; st has the leaf's name
\* allocated already
buildLeaf(f, nameKey, st) ==
    CASE "eq" \in DOMAIN f ->
            Built(<<nameKey, " = ", Placeholder(":v", st.valueCounter)>>,
                  WithValue(st, f.eq))
      [] "ne" \in DOMAIN f ->
            Built(<<nameKey, " <> ", Placeholder(":v", st.valueCounter)>>,
                  WithValue(st, f.ne))
      [] "exists" \in DOMAIN f ->
            Built(IF f.exists THEN <<"attribute_exists(", nameKey, ")">>
                  ELSE <<"attribute_not_exists(", nameKey, ")">>, st)
      [] "contains" \in DOMAIN f ->
            Built(<<"contains(", nameKey, ", ", Placeholder(":v", st.valueCounter), ")">>,
                  WithValue(st, f.contains))
      [] "in" \in DOMAIN f ->
            Built(<<nameKey, " IN (">>
                      \o JoinFrom(inValuesFrom(f.in, 1, st, <<>>).inValues, ",", 1)
                      \o <<")">>,
                  inValuesFrom(f.in, 1, st, <<>>).st)
      [] OTHER -> Rejected(st)

\* `(${children.join(sep)})`
Grouped(r, sep) ==
    IF r.ok THEN Built(<<"(">> \o JoinFrom(r.expr, sep, 1) \o <<")">>, r.st) ELSE r

\* `NOT (${buildExpr(f.not)})`
Negated(r) == IF r.ok THEN Built(<<"NOT (">> \o r.expr \o <<")">>, r.st) ELSE r

\* buildExpr(f), and children.map(buildExpr) from child i on
RECURSIVE buildExpr(_, _)
RECURSIVE buildChildren(_, _, _, _)
buildExpr(f, st) ==
    CASE "attribute" \in DOMAIN f ->
            buildLeaf(f, Placeholder("#n", st.nameCounter), WithName(st, f.attribute))
      [] "and" \in DOMAIN f -> Grouped(buildChildren(f.and, 1, st, <<>>), " AND ")
      [] "or" \in DOMAIN f -> Grouped(buildChildren(f.or, 1, st, <<>>), " OR ")
      [] "not" \in DOMAIN f -> Negated(buildExpr(f.not, st))
      [] OTHER -> Rejected(st)

buildChildren(fs, i, st, parts) ==
    IF i > Len(fs)
    THEN Built(parts, st)
    ELSE LET child == buildExpr(fs[i], st)
         IN  IF child.ok
             THEN buildChildren(fs, i + 1, child.st, Append(parts, child.expr))
             ELSE child

\* the string the pieces make up
RECURSIVE Render(_)
Render(parts) == IF parts = <<>> THEN "" ELSE Head(parts) \o Render(Tail(parts))

\* return { expr: buildExpr(filter), names, values }
Compiled(r) ==
    IF r.ok
    THEN Done([expr |-> Render(r.expr), parts |-> r.expr,
               names |-> r.st.names, values |-> r.st.values], <<>>, <<>>)
    ELSE Fail("InvalidExpression", <<>>, <<>>)

buildFilterExpression(filter) == Compiled(buildExpr(filter, NewCompilation))

\* the most children a combinator of the compiled trees has
MaxChildren == 2

Attributes == {"role", "status"}

\* the leaves: one per operator, a leaf without an operator and a node of no
\* recognized shape
Leaves ==
    {[attribute |-> a, eq |-> "admin"] : a \in Attributes}
        \cup {[attribute |-> a, ne |-> "inactive"] : a \in Attributes}
        \cup {[attribute |-> "role", exists |-> b] : b \in BOOLEAN}
        \cup {[attribute |-> "role", contains |-> "adm"]}
        \cup {[attribute |-> "role", in |-> vs] : vs \in {<<>>, <<"admin", "owner">>}}
        \cup {[attribute |-> "role"], [value |-> "admin"]}

ChildLists(S) == UNION {[1..n -> S] : n \in 0..MaxChildren}

\* combinators over leaves
Level1 ==
    Leaves
        \cup {[and |-> fs] : fs \in ChildLists(Leaves)}
        \cup {[or |-> fs] : fs \in ChildLists(Leaves)}
        \cup {[not |-> f] : f \in Leaves}

\* one more level: a negation, and a combinator with a leaf next to the subtree
Filters ==
    Level1
        \cup {[not |-> f] : f \in Level1}
        \cup {[and |-> <<[attribute |-> "status", ne |-> "inactive"], f>>] : f \in Level1}
        \cup {[or |-> <<f, [attribute |-> "status", eq |-> "active"]>>] : f \in Level1}

\* one compilation of the tree at hand (the first, or one more)
CompileFilter ==
    /\ last' = [Call("buildFilterExpression", "", EmptyObj, last.input, <<>>,
                     buildFilterExpression(last.input)) EXCEPT !.pre = {}]
    /\ UNCHANGED <<table, config, inflight>>

\* a tree is at hand, nothing is compiled yet
InitFilter ==
    /\ table = <<>>
    /\ config = Cfg("single", <<>>, <<>>)
    /\ last \in {[NoCall EXCEPT !.input = filter] : filter \in Filters}
    /\ inflight = [c \in Callers |-> Idle]

NextFilter == CompileFilter

SpecFilter == InitFilter /\ [][NextFilter]_vars

(***************************************************************************)
(* Concurrent facade updates: dodo.update suspends at its two awaits, the  *)
(* get and the put, and other calls run in between.                        *)
(***************************************************************************)
ConcConfigs == {Cfg("single", <<>>, sp) : sp \in {<<>>, <<"watch">>}}

InitConc ==
    /\ table = <<>>
    /\ config \in ConcConfigs
    /\ last = NoCall
    /\ inflight = [c \in Callers |-> Idle]

\* a caller calls dodo.update(key, updates)
UpdateStart(c) ==
    /\ inflight[c].pc = "idle"
    /\ \E key \in FacadeKeys, updates \in FacadeUpdateInputs :
          inflight' = [inflight EXCEPT ![c] = [Idle EXCEPT !.pc = "get", !.key = key,
                                                          !.updates = updates]]
    /\ UNCHANGED <<table, config, last>>

\* the outcome of const existing = await this.get(key) and the existence check
ReadOutcome(c, existing) ==
    IF ~existing.ok
    THEN [inflight[c] EXCEPT !.pc = "done", !.ok = FALSE, !.err = existing.err]
    ELSE IF NotFound(existing.ret)
    THEN [inflight[c] EXCEPT !.pc = "done", !.ok = FALSE, !.err = "NotFound"]
    ELSE [inflight[c] EXCEPT !.pc = "put", !.existing = existing.ret]

\* const existing = await this.get(key); if (!existing) throw ...
UpdateRead(c) ==
    /\ inflight[c].pc = "get"
    /\ inflight' = [inflight EXCEPT
                       ![c] = ReadOutcome(c, dodoGet(config, table, inflight[c].key))]
    /\ UNCHANGED <<table, config, last>>

\* mutant: the merge is made over the record as it is when the write happens
WriteBaseCurrent(existing, current) == current

\* the record the merge is made over: existing, as read by the call's own get
WriteBase(existing, current) == existing

\* the put of the merged record, over the table as it is when the put runs
writeMerged(c) ==
    dodoPut(config, table,
            Obj(MergeUpdate(WriteBase(inflight[c].existing,
                                      TransportGet(table, inflight[c].key)),
                            inflight[c].updates, inflight[c].key)))

\* const merged = { ...existing, ...updates, ...key }; await this.put(merged)
UpdateWrite(c) ==
    /\ inflight[c].pc = "put"
    /\ table' = writeMerged(c).tbl
    /\ inflight' = [inflight EXCEPT ![c] = [@ EXCEPT !.pc = "done",
                                                     !.ok = writeMerged(c).ok,
                                                     !.err = writeMerged(c).err]]
    /\ UNCHANGED <<config, last>>

NextConc ==
    \/ \E c \in Callers : UpdateStart(c)
    \/ \E c \in Callers : UpdateRead(c)
    \/ \E c \in Callers : UpdateWrite(c)
    \/ FacadePut
    \/ FacadeDelete

SpecConc == InitConc /\ [][NextConc]_vars

(***************************************************************************)
(* Batches (entity.ts createMany, getMany, deleteMany): Promise.all over   *)
(* one call of the singular operation per item.  Every per-item call is    *)
(* issued; each makes at most one store access, so a run of the batch is   *)
(* an order in which the per-item calls reach the store.                   *)
(***************************************************************************)
\* the orders in which n calls can reach the store: order[k] is the index of
\* the call that comes k-th
Orders(n) == {f \in [1..n -> 1..n] : \A i, j \in 1..n : i # j => f[i] # f[j]}

\* mutant: the results are collected in the order the calls complete
ResultSlotArrival(order, k) == k

\* Promise.all: the result of the call for item i is element i of the array
ResultSlot(order, k) == order[k]

\* no call of the batch has settled yet
Unsettled(tbl, n) == Done([i \in 1..n |-> Undefined], tbl, <<>>)

\* one per-item call c settles into the batch: its effect on the table
\* stays, its result goes to its slot, and a rejection rejects the batch (a
\* validation failure, thrown before the call's first await, is the
\* earliest rejection; otherwise the first one to arrive)
Settle(acc, slot, c) ==
    [ok |-> acc.ok /\ c.ok,
     err |-> IF c.ok THEN acc.err
             ELSE IF acc.ok \/ c.err = "ValidationFailed" THEN c.err ELSE acc.err,
     ret |-> [acc.ret EXCEPT ![slot] = c.ret],
     tbl |-> c.tbl,
     log |-> acc.log \o c.log]

\* what the caller of the batch gets: the array, or the rejection
Awaited(acc) == IF acc.ok THEN acc ELSE [acc EXCEPT !.ret = Undefined]

\* Promise.all(items.map((item) => create(item))), from the k-th call on
RECURSIVE createManyFrom(_, _, _, _, _, _)
createManyFrom(cfg, acc, items, order, k, now) ==
    IF k > Len(items) THEN Awaited(acc)
    ELSE createManyFrom(cfg,
                        Settle(acc, ResultSlot(order, k),
                               create(cfg, acc.tbl, items[order[k]], now)),
                        items, order, k + 1, now)

\* entity.createMany(items)
createMany(cfg, tbl, items, order, now) ==
    createManyFrom(cfg, Unsettled(tbl, Len(items)), items, order, 1, now)

\* Promise.all(ids.map((id) => get(id))), from the k-th call on
RECURSIVE getManyFrom(_, _, _, _, _, _)
getManyFrom(cfg, acc, ids, order, k, now) ==
    IF k > Len(ids) THEN Awaited(acc)
    ELSE getManyFrom(cfg,
                     Settle(acc, ResultSlot(order, k),
                            get(cfg, acc.tbl, ids[order[k]], now)),
                     ids, order, k + 1, now)

\* entity.getMany(ids)
getMany(cfg, tbl, ids, order, now) ==
    getManyFrom(cfg, Unsettled(tbl, Len(ids)), ids, order, 1, now)

\* the items of a createMany: the valid records, one the schema rejects and
\* a second record for the id u1
BatchInputs == CreateInputs \cup {Obj(Merge(NewRecord("u1"), Rec1("name", "n2")))}

BatchLists == UNION {[1..n -> BatchInputs] : n \in 0..MaxBatch}

BatchConfigs == {Cfg("single", ep, <<>>) : ep \in {<<>>, <<"softDelete">>}}

InitBatch ==
    /\ table = <<>>
    /\ config \in BatchConfigs
    /\ last = NoCall
    /\ inflight = [c \in Callers |-> Idle]

EntityCreateMany ==
    \E items \in BatchLists :
        \E order \in Orders(Len(items)) :
            Finish("entity.createMany", "", EmptyObj, items, <<>>,
                   createMany(config, table, items, order, 0))

EntityGetMany ==
    \E ids \in IdLists :
        \E order \in Orders(Len(ids)) :
            Finish("entity.getMany", "", EmptyObj, Undefined, ids,
                   getMany(config, table, ids, order, 0))

NextBatch ==
    \/ EntityCreateMany
    \/ EntityGetMany
    \/ EntityDeleteMany

SpecBatch == InitBatch /\ [][NextBatch]_vars

(***************************************************************************)
(* Attribute search (entity.ts find and findOne) over dodo.scan            *)
(***************************************************************************)
\* result.items.map(({ pk, sk, ...data }) => schema.parse(data)), from item i
\* on; the result carries the parsed records
RECURSIVE parsedFrom(_, _, _, _)
parsedFrom(tbl, items, i, parsed) ==
    IF i > Len(items)
    THEN Done(parsed, tbl, <<>>)
    ELSE LET data == parse(Obj(Without(Spread(items[i]), {"pk", "sk"})), tbl)
         IN  Then(data, parsedFrom(tbl, items, i + 1, Append(parsed, data.ret)))

\* Object.entries(predicate).every(([key, value]) => item[key] === value)
EveryEntry(predicate, item) ==
    \A key \in DOMAIN predicate : key \in DOMAIN item /\ item[key] = predicate[key]

\* entity.find(predicate): dodo.scan() is called without parameters
find(cfg, tbl, predicate) ==
    LET result == scan(cfg, tbl, Undefined)
        parsed == parsedFrom(tbl, result.ret.val.items, 1, <<>>)
    IN  Then(result,
        Then(parsed,
             Done(SelectSeq(parsed.ret, LAMBDA item : EveryEntry(predicate, item.val)),
                  tbl, <<>>)))

\* results.length > 0 ? results[0]! : null
FirstOrNull(results) == IF Len(results) > 0 THEN results[1] ELSE Null

\* the outcome of findOne for the outcome of its find: a rejection passes on
firstOf(results) ==
    IF results.ok THEN [results EXCEPT !.ret = FirstOrNull(@)] ELSE results

\* entity.findOne(predicate)
findOne(cfg, tbl, predicate) == firstOf(find(cfg, tbl, predicate))

\* the predicates searched for
Predicates ==
    {EmptyObj, Rec1("id", "u1"), Rec1("id", "u2"), Rec1("name", "n1"),
     Rec1("name", "n2"), Merge(Rec1("id", "u2"), Rec1("name", "n1"))}

\* the facade as created by default, with a plugin that supplies the scan
\* parameters, and with one that also caps the page at one record
FindConfigs == {Cfg("single", <<>>, sp) : sp \in {<<>>, <<"defaults">>, <<"paged">>}}

InitFind ==
    /\ table = <<>>
    /\ config \in FindConfigs
    /\ last = NoCall
    /\ inflight = [c \in Callers |-> Idle]

EntityFind ==
    \E predicate \in Predicates :
        Finish("entity.find", "", EmptyObj, Obj(predicate), <<>>,
               find(config, table, predicate))

EntityFindOne ==
    \E predicate \in Predicates :
        Finish("entity.findOne", "", EmptyObj, Obj(predicate), <<>>,
               findOne(config, table, predicate))

NextFind ==
    \/ EntityCreate
    \/ EntityDelete
    \/ EntityFind
    \/ EntityFindOne

SpecFind == InitFind /\ [][NextFind]_vars

(***************************************************************************)
(* Reading the event log of a call                                         *)
(***************************************************************************)
EventsOf(log, layer, name) ==
    SelectSeq(log, LAMBDA e : e.layer = layer /\ e.name = name)

IsWrite(e) == e.layer = "transport" /\ e.name \in {"Put", "Delete", "TransactWrite"}

NoWrite(log) == \A i \in DOMAIN log : ~IsWrite(log[i])

IsHandler(e) == e.layer \in {"entity", "store"}

\* the table without the given keys
TableWithout(tbl, ks) == [k \in (DOMAIN tbl) \ ks |-> tbl[k]]

(***************************************************************************)
(* C1                                                                      *)
(***************************************************************************)
\* C1: update on a key that has no stored record fails with NotFound and
\* issues no write, so the table after the call equals the table before it;
\* this holds for the facade's update(key, updates) and for the entity's
\* update(id, updates) (whenever the id maps to a key).
C1_UpdateMissingKeyNotFound ==
    [][(/\ last'.op \in {"dodo.update", "entity.update"}
        /\ last'.key # EmptyObj
        /\ last'.key \notin DOMAIN table)
       => (/\ ~last'.ok
           /\ last'.err = "NotFound"
           /\ NoWrite(last'.log)
           /\ table' = table)]_vars

C1_Witness ==
    /\ last.op = "entity.update"
    /\ last.key # EmptyObj
    /\ last.key \notin last.pre
    /\ last.pre # {}
    /\ last.err = "NotFound"

(***************************************************************************)
(* C2                                                                      *)
(***************************************************************************)
\* no plugin of the entity defines a handler for the phase
NoHandlerFor(phase) ==
    \A i \in DOMAIN config.entityPlugins : ~EntityHandles(config.entityPlugins[i], phase)

\* C2: after a successful entity update(id, updates) the record returned and
\* written is the validated merge of the before-update hook output over the
\* current value: with no before-update handler every field supplied in
\* updates has its new value, and the record is written under the
\* reverse-mapped key of id.
C2_UpdateWritesMerge ==
    (last.op = "entity.update" /\ last.ok) =>
        /\ IsObj(last.ret)
        /\ NoHandlerFor("beforeUpdate") =>
              \A k \in DOMAIN last.input.val : Field(last.ret.val, k) = last.input.val[k]
        /\ config.plugins = <<>> =>
              /\ last.key \in DOMAIN table
              /\ table[last.key] = Merge(last.ret.val, last.key)

(***************************************************************************)
(* C3                                                                      *)
(***************************************************************************)
\* the handler events of one phase are in list order, and a handler that
\* follows one that produced a value was called with that value
Chained(H) ==
    \A j \in 2..Len(H) :
        /\ H[j].idx > H[j - 1].idx
        /\ H[j - 1].ret # Undefined => H[j].args[1] = H[j - 1].ret

\* the plugin list holds P1 (sets a = 1) somewhere before P2 (sets b = a + 1)
HasP1ThenP2 ==
    \E i, j \in DOMAIN config.entityPlugins :
        /\ i < j
        /\ config.entityPlugins[i] = "setA"
        /\ config.entityPlugins[j] = "setB"

\* the record create stored: the item of the call's Put command
StoredByCall == EventsOf(last.log, "transport", "Put")[1].args[1].val

\* C3: a pipeline run for one phase invokes the handlers in list order, each
\* one on the value the one before it produced: with P1.beforeCreate setting
\* a = 1 and P2.beforeCreate setting b = a + 1, P2 is called with a = 1 and the
\* record create stores has a = 1 and b = 2.
C3_PipelineSequential ==
    last.op = "entity.create" =>
        /\ Chained(EventsOf(last.log, "entity", "beforeCreate"))
        /\ Chained(EventsOf(last.log, "store", "onBeforePut"))
        /\ (last.ok /\ HasP1ThenP2) =>
              /\ \A i \in DOMAIN last.log :
                    (last.log[i].layer = "entity"
                        /\ config.entityPlugins[last.log[i].idx] = "setB")
                    => Field(last.log[i].args[1].val, "a") = "1"
              /\ Field(StoredByCall, "a") = "1"
              /\ Field(StoredByCall, "b") = "2"
              /\ table[KeyOf(StoredByCall)] = StoredByCall

C3_Witness ==
    /\ last.op = "entity.create"
    /\ last.ok
    /\ config.entityPlugins = <<"setA", "setB">>
    /\ Len(EventsOf(last.log, "entity", "beforeCreate")) = 2
    /\ Field(table[KeyOf(StoredByCall)], "b") = "2"

(***************************************************************************)
(* C4                                                                      *)
(***************************************************************************)
\* C4: in the entity before-update phase every handler after the first is
\* called with the original id and with the updates as transformed by the
\* handlers before it, never with the raw updates.
C4_BeforeUpdateCumulative ==
    last.op = "entity.update" =>
        \A j \in 2..Len(EventsOf(last.log, "entity", "beforeUpdate")) :
            /\ EventsOf(last.log, "entity", "beforeUpdate")[j].args[1] = Str(last.id)
            /\ EventsOf(last.log, "entity", "beforeUpdate")[j].args[2]
                  = Coalesce(EventsOf(last.log, "entity", "beforeUpdate")[j - 1].ret,
                             EventsOf(last.log, "entity", "beforeUpdate")[j - 1].args[2])

(***************************************************************************)
(* C5                                                                      *)
(***************************************************************************)
\* C5: when an entity after-get handler returns the filtered-out signal
\* (null), entity get(id) returns null although the record is stored.
C5_FilteredOutIsAbsent ==
    (/\ last.op = "entity.get"
     /\ last.ok
     /\ \E i \in DOMAIN last.log :
            /\ last.log[i].layer = "entity"
            /\ last.log[i].name = "afterGet"
            /\ last.log[i].ret = Null)
    => last.ret = Null

(***************************************************************************)
(* C6                                                                      *)
(***************************************************************************)
\* in the handler events H of one entity phase, a handler that returned
\* undefined is followed by a handler called with the same running value
PassesThrough(H) ==
    \A j \in 1..(Len(H) - 1) :
        H[j].ret = Undefined => H[j + 1].args[1] = H[j].args[1]

\* the pipeline's result when its last handler returned undefined is the
\* value that handler was called with
ResultPassesThrough(H, result) ==
    (Len(H) > 0 /\ H[Len(H)].ret = Undefined) => result = H[Len(H)].args[1]

\* C6: in the entity-level pipeline a handler that yields no result leaves the
\* running value unchanged: the next handler of the phase, and the pipeline's
\* result (what create returns, what get returns), is the value that was
\* current before that handler ran.
C6_EntityNoResultPassesThrough ==
    /\ \A phase \in EntityPhases : PassesThrough(EventsOf(last.log, "entity", phase))
    /\ (last.op = "entity.create" /\ last.ok) =>
           ResultPassesThrough(EventsOf(last.log, "entity", "beforeCreate"), last.ret)
    /\ (last.op = "entity.get" /\ last.ok) =>
           ResultPassesThrough(EventsOf(last.log, "entity", "afterGet"), last.ret)

C6_Witness ==
    /\ last.op = "entity.create"
    /\ last.ok
    /\ config.entityPlugins = <<"setA", "audit", "setB">>
    /\ Len(EventsOf(last.log, "entity", "beforeCreate")) = 3
    /\ EventsOf(last.log, "entity", "beforeCreate")[2].ret = Undefined
    /\ Field(EventsOf(last.log, "entity", "beforeCreate")[3].args[1].val, "a") = "1"

(***************************************************************************)
(* C7                                                                      *)
(***************************************************************************)
\* C7: in the store-level pipeline a handler that returns nothing is a
\* passthrough: the next handler of the phase, the transport (for
\* onBeforePut) and the caller (for onAfterGet) get the value the handler
\* was called with.
C7_StoreNoResultPassesThrough ==
    \A i \in DOMAIN last.log :
        (last.log[i].layer = "store" /\ last.log[i].ret = Undefined) =>
            /\ (/\ i < Len(last.log)
                /\ \/ /\ last.log[i + 1].layer = "store"
                      /\ last.log[i + 1].name = last.log[i].name
                   \/ /\ last.log[i + 1].layer = "transport"
                      /\ last.log[i].name = "onBeforePut")
               => last.log[i + 1].args[1] = last.log[i].args[1]
            /\ (last.op = "dodo.get" /\ last.ok /\ i = Len(last.log))
               => last.ret = last.log[i].args[1]

(***************************************************************************)
(* C8                                                                      *)
(***************************************************************************)
EntityOps == {"entity.create", "entity.get", "entity.update", "entity.delete"}

\* the before and after phase of an entity operation
BeforePhase(op) ==
    CASE op = "entity.create" -> "beforeCreate"
      [] op = "entity.get" -> "beforeGet"
      [] op = "entity.update" -> "beforeUpdate"
      [] OTHER -> "beforeDelete"

AfterPhase(op) ==
    CASE op = "entity.create" -> "afterCreate"
      [] op = "entity.get" -> "afterGet"
      [] op = "entity.update" -> "afterUpdate"
      [] OTHER -> "afterDelete"

\* the position in the log of the operation's transport call (the last one)
TransportAt(log) ==
    CHOOSE t \in DOMAIN log :
        /\ log[t].layer = "transport"
        /\ \A u \in DOMAIN log : log[u].layer = "transport" => u <= t

\* plugin i's handler of the phase ran at a log position in the set at
RanAt(log, phase, i, at) ==
    \E j \in at : log[j].layer = "entity" /\ log[j].name = phase /\ log[j].idx = i

\* C8: every entity operation runs its entity-level before handlers, then the
\* store-level before handlers, then the transport call, then the store-level
\* after handlers, then its entity-level after handlers.
C8_HookOrder ==
    (/\ last.op \in EntityOps
     /\ last.ok
     /\ last.op = "entity.get" => last.key \in DOMAIN table) =>
        /\ \A i \in DOMAIN config.entityPlugins :
              /\ EntityHandles(config.entityPlugins[i], BeforePhase(last.op))
                    => RanAt(last.log, BeforePhase(last.op), i,
                             1..(TransportAt(last.log) - 1))
              /\ EntityHandles(config.entityPlugins[i], AfterPhase(last.op))
                    => RanAt(last.log, AfterPhase(last.op), i,
                             (TransportAt(last.log) + 1)..Len(last.log))
        /\ \A j \in DOMAIN last.log :
              /\ (last.log[j].layer = "store" /\ last.log[j].name = "onBeforePut")
                    => j < TransportAt(last.log)
              /\ (last.log[j].layer = "store" /\ last.log[j].name = "onAfterGet"
                     /\ last.op = "entity.get")
                    => j > TransportAt(last.log)

(***************************************************************************)
(* C9                                                                      *)
(***************************************************************************)
\* C9: if a handler of a plugin pipeline fails, it is the last thing the
\* call does (no later handler runs, the handler is not called again) and the
\* call fails to the caller; when the failing handler is a before-create or
\* before-put handler nothing is written and the table is unchanged.
C9_HandlerFailureAborts ==
    [][\A i \in DOMAIN last'.log :
          (IsHandler(last'.log[i]) /\ last'.log[i].ret = Thrown) =>
              /\ i = Len(last'.log)
              /\ ~last'.ok
              /\ last'.err = "PluginFailure"
              /\ \A j \in 1..(i - 1) :
                    ~(/\ last'.log[j].layer = last'.log[i].layer
                      /\ last'.log[j].name = last'.log[i].name
                      /\ last'.log[j].idx = last'.log[i].idx)
              /\ last'.log[i].name \in {"beforeCreate", "onBeforePut"}
                    => (NoWrite(last'.log) /\ table' = table)]_vars

C9_Witness ==
    /\ last.op = "entity.create"
    /\ ~last.ok
    /\ last.err = "PluginFailure"
    /\ config.entityPlugins = <<"setA", "boom", "setB">>
    /\ Len(EventsOf(last.log, "entity", "beforeCreate")) = 2
    /\ last.pre # {}
    /\ DOMAIN table = last.pre

(***************************************************************************)
(* C10                                                                     *)
(***************************************************************************)
\* the keys the ids of a deleteMany map to
KeysOfIds(ids) == {EntityKey(ids[i]) : i \in DOMAIN ids}

\* C10: facade delete(key), entity delete(id) and entity deleteMany(ids)
\* (ids that map to a key) succeed whether or not the keys hold a record: the
\* table afterwards is the table without those keys, so on keys with no
\* stored record it is unchanged, and a repeated delete changes nothing more.
C10_DeleteIdempotent ==
    [][/\ (last'.op \in {"dodo.delete", "entity.delete"} /\ last'.key # EmptyObj) =>
              /\ last'.ok
              /\ last'.err = ""
              /\ table' = TableWithout(table, {last'.key})
              /\ last'.key \notin DOMAIN table => table' = table
       /\ (last'.op = "entity.deleteMany" /\ fromId(config.keys, "u1").ok) =>
              /\ last'.ok
              /\ last'.err = ""
              /\ table' = TableWithout(table, KeysOfIds(last'.ids))
              /\ KeysOfIds(last'.ids) \cap DOMAIN table = {} => table' = table]_vars

C10_Witness ==
    /\ last.op = "entity.deleteMany"
    /\ Len(last.ids) = 2
    /\ fromId(config.keys, "u1").ok
    /\ KeysOfIds(last.ids) \cap last.pre = {}
    /\ last.pre # {}
    /\ last.ok
    /\ DOMAIN table = last.pre

(***************************************************************************)
(* C11                                                                     *)
(***************************************************************************)
\* an after-get handler of the read returned a record whose field k differs
\* from the one it was given
MutatedByAfterGet(log, k) ==
    \E i \in DOMAIN log :
        /\ log[i].layer = "store"
        /\ log[i].name = "onAfterGet"
        /\ IsObj(log[i].ret)
        /\ Field(Spread(log[i].ret), k) # Field(Spread(log[i].args[1]), k)

\* the read g returns the record, up to the fields after-get handlers changed
RoundTrips(record, g) ==
    /\ g.ok
    /\ IsObj(g.ret)
    /\ \A k \in (DOMAIN record.val) \cup (DOMAIN g.ret.val) :
          \/ Field(g.ret.val, k) = Field(record.val, k)
          \/ MutatedByAfterGet(g.log, k)

\* C11: facade get(key) right after a successful put(record) under that key
\* returns a value equal to record except for the fields after-get handlers
\* changed, whatever the store-level plugin list.
C11_GetAfterPutRoundTrip ==
    [][(last'.op = "dodo.put" /\ last'.ok)
          => RoundTrips(last'.input, dodoGet(config, table', last'.key))]_vars

(***************************************************************************)
(* C12                                                                     *)
(***************************************************************************)
\* the store's evaluation of a predicate tree on a stored record
RECURSIVE Matches(_, _)
Matches(f, item) ==
    CASE "attribute" \in DOMAIN f ->
            (CASE "eq" \in DOMAIN f ->
                     f.attribute \in DOMAIN item /\ item[f.attribute] = f.eq
               [] "ne" \in DOMAIN f ->
                     ~(f.attribute \in DOMAIN item /\ item[f.attribute] = f.ne)
               [] "exists" \in DOMAIN f -> (f.attribute \in DOMAIN item) = f.exists
               [] "in" \in DOMAIN f ->
                     /\ f.attribute \in DOMAIN item
                     /\ \E i \in DOMAIN f.in : item[f.attribute] = f.in[i]
               [] OTHER -> FALSE)
      [] "and" \in DOMAIN f -> \A i \in DOMAIN f.and : Matches(f.and[i], item)
      [] "or" \in DOMAIN f -> \E i \in DOMAIN f.or : Matches(f.or[i], item)
      [] "not" \in DOMAIN f -> ~Matches(f.not, item)
      [] OTHER -> FALSE

\* a condition check fails when its record is absent or does not satisfy the
\* condition
CheckFails(tbl, check) ==
    \/ check.key \notin DOMAIN tbl
    \/ ~Matches(check.condition, tbl[check.key])

\* C12: a transaction whose item list contains a failing condition check
\* fails and applies none of its items: the table is the same after the call
\* as before it.
C12_TransactionAllOrNothing ==
    [][(/\ last'.op = "dodo.transaction"
        /\ \E i \in DOMAIN last'.input :
              /\ "conditionCheck" \in DOMAIN last'.input[i]
              /\ CheckFails(table, last'.input[i].conditionCheck))
       => (~last'.ok /\ table' = table)]_vars

(***************************************************************************)
(* C13                                                                     *)
(***************************************************************************)
\* caller d completed an update of the same key from the same snapshot as the
\* update caller c is about to write
EarlierFromSameSnapshot(c, d) ==
    /\ d # c
    /\ inflight[d].pc = "done"
    /\ inflight[d].ok
    /\ inflight[d].key = inflight[c].key
    /\ inflight[d].existing = inflight[c].existing

\* C13: two facade updates of one key that read the same snapshot both
\* succeed; the later write stores the merge of its own updates over the
\* snapshot, so a field only the earlier update changed is back at its
\* snapshot value, and neither caller gets an error.
C13_LaterUpdateWins ==
    [][\A c, d \in Callers :
          (inflight[c].pc = "put" /\ inflight'[c].pc = "done"
              /\ EarlierFromSameSnapshot(c, d)) =>
              /\ inflight'[c].ok
              /\ inflight'[d].ok
              /\ table'[inflight[c].key]
                    = MergeUpdate(inflight[c].existing, inflight[c].updates,
                                  inflight[c].key)
              /\ \A k \in (DOMAIN inflight[d].updates.val)
                              \ ((DOMAIN inflight[c].updates.val) \cup {"pk", "sk"}) :
                    Field(table'[inflight[c].key], k)
                        = Field(inflight[c].existing.val, k)]_vars

C13_Witness ==
    /\ \A c \in Callers : inflight[c].pc = "done" /\ inflight[c].ok
    /\ inflight["a"].key = inflight["b"].key
    /\ inflight["a"].existing = inflight["b"].existing
    /\ inflight["a"].updates = Obj(Rec1("name", "n2"))
    /\ inflight["b"].updates = Obj(Rec1("deleted", "true"))
    /\ inflight["a"].key \in DOMAIN table
    /\ Field(table[inflight["a"].key], "name") = "n1"
    /\ Field(table[inflight["a"].key], "deleted") = "true"

(***************************************************************************)
(* C14                                                                     *)
(***************************************************************************)
\* C14: scan(params) honours the predicate, the limit and the cursor of
\* params: with a predicate every returned item satisfies it, with a limit at
\* most that many items are returned, with a cursor every returned item lies
\* after the position the cursor encodes.
C14_ScanHonoursParams ==
    (last.op = "dodo.scan" /\ last.ok /\ IsObj(last.input)) =>
        \A i \in DOMAIN last.ret.val.items :
            /\ "filter" \in DOMAIN last.input.val
                  => Matches(last.input.val.filter, last.ret.val.items[i].val)
            /\ "limit" \in DOMAIN last.input.val => i <= last.input.val.limit
            /\ "cursor" \in DOMAIN last.input.val
                  => PositionOf(KeyOf(last.ret.val.items[i].val))
                        > PositionOf(decodeCursor(last.input.val.cursor))

(***************************************************************************)
(* C15                                                                     *)
(***************************************************************************)
\* the tree holds, at some depth, an AND or OR without children, a leaf
\* without a recognized operator or a node of no recognized shape
RECURSIVE Malformed(_)
Malformed(f) ==
    CASE "attribute" \in DOMAIN f ->
            (DOMAIN f) \cap {"eq", "ne", "exists", "contains", "in"} = {}
      [] "and" \in DOMAIN f ->
            f.and = <<>> \/ \E i \in DOMAIN f.and : Malformed(f.and[i])
      [] "or" \in DOMAIN f ->
            f.or = <<>> \/ \E i \in DOMAIN f.or : Malformed(f.or[i])
      [] "not" \in DOMAIN f -> Malformed(f.not)
      [] OTHER -> TRUE

\* C15: compiling a predicate tree that holds, at any depth, a combinator with
\* zero children, a leaf without a recognized operator or a node of no
\* recognized shape fails with InvalidExpression and returns no expression.
C15_MalformedFilterRejected ==
    (last.op = "buildFilterExpression" /\ Malformed(last.input)) =>
        (~last.ok /\ last.err = "InvalidExpression")

(***************************************************************************)
(* C16                                                                     *)
(***************************************************************************)
\* the leaves of a tree, depth first and left to right
RECURSIVE LeavesOf(_)
RECURSIVE LeavesOfList(_, _)
LeavesOf(f) ==
    CASE "attribute" \in DOMAIN f -> <<f>>
      [] "and" \in DOMAIN f -> LeavesOfList(f.and, 1)
      [] "or" \in DOMAIN f -> LeavesOfList(f.or, 1)
      [] "not" \in DOMAIN f -> LeavesOf(f.not)
      [] OTHER -> <<>>

LeavesOfList(fs, i) ==
    IF i > Len(fs) THEN <<>> ELSE LeavesOf(fs[i]) \o LeavesOfList(fs, i + 1)

\* the operands of a leaf: one per member for member-of-set, none for exists
OperandsOfLeaf(f) ==
    CASE "eq" \in DOMAIN f -> <<f.eq>>
      [] "ne" \in DOMAIN f -> <<f.ne>>
      [] "exists" \in DOMAIN f -> <<>>
      [] "contains" \in DOMAIN f -> <<f.contains>>
      [] "in" \in DOMAIN f -> f.in
      [] OTHER -> <<>>

\* the operands of the first n leaves, in order
RECURSIVE OperandsOf(_, _)
OperandsOf(leaves, n) ==
    IF n = 0 THEN <<>> ELSE OperandsOf(leaves, n - 1) \o OperandsOfLeaf(leaves[n])

\* the table binds prefix0, prefix1, ... to the elements of bound, in order
NumberedFromZero(tbl, prefix, bound) ==
    /\ DOMAIN tbl = {Placeholder(prefix, i - 1) : i \in DOMAIN bound}
    /\ Cardinality(DOMAIN tbl) = Len(bound)
    /\ \A i \in DOMAIN bound : tbl[Placeholder(prefix, i - 1)] = bound[i]

\* the placeholders among the pieces of an expression
PlaceholdersIn(parts) ==
    {parts[i] : i \in DOMAIN parts}
        \cap {Placeholder(prefix, n) : prefix \in {"#n", ":v"}, n \in 0..Len(parts)}

\* the example tree of the claim
RoleAndStatus ==
    [and |-> <<[attribute |-> "role", eq |-> "admin"],
               [attribute |-> "status", ne |-> "inactive"]>>]

\* a successful compilation numbers its placeholders from 0 in leaf order,
\* binds each to its attribute or operand and uses exactly those in the string
WellNumbered(call) ==
    (call.op = "buildFilterExpression" /\ call.ok) =>
        /\ NumberedFromZero(call.ret.names, "#n",
                            [i \in DOMAIN LeavesOf(call.input) |->
                                LeavesOf(call.input)[i].attribute])
        /\ NumberedFromZero(call.ret.values, ":v",
                            OperandsOf(LeavesOf(call.input), Len(LeavesOf(call.input))))
        /\ PlaceholdersIn(call.ret.parts)
              = (DOMAIN call.ret.names) \cup (DOMAIN call.ret.values)
        /\ call.ret.expr = Render(call.ret.parts)
        /\ call.input = RoleAndStatus =>
              /\ call.ret.expr = "(#n0 = :v0 AND #n1 <> :v1)"
              /\ call.ret.names["#n0"] = "role"
              /\ call.ret.values[":v0"] = "admin"
              /\ call.ret.names["#n1"] = "status"
              /\ call.ret.values[":v1"] = "inactive"

\* C16: one compilation gives every leaf a name placeholder and every operand
\* a value placeholder, numbered from 0 in depth-first left-to-right order and
\* all distinct; the placeholders in the expression are the keys of the two
\* tables, each bound to its attribute or operand; the example tree compiles
\* to "(#n0 = :v0 AND #n1 <> :v1)"; compiling a tree again, whatever was
\* compiled before, gives the same output.
C16_PlaceholdersNumbered ==
    [][/\ WellNumbered(last')
       /\ (last.op = "buildFilterExpression" /\ last'.input = last.input)
             => last'.ret = last.ret]_vars

C16_Witness ==
    /\ last.op = "buildFilterExpression"
    /\ last.ok
    /\ last.input
          = [and |-> <<[attribute |-> "status", ne |-> "inactive"],
                       [or |-> <<[attribute |-> "role", in |-> <<"admin", "owner">>],
                                 [attribute |-> "role", exists |-> TRUE]>>]>>]
    /\ Cardinality(DOMAIN last.ret.names) = 3
    /\ Cardinality(DOMAIN last.ret.values) = 3
    /\ last.ret.values[":v2"] = "owner"

(***************************************************************************)
(* C17                                                                     *)
(***************************************************************************)
\* C17: for every type T and ids, single(T).toKey({id}) is {pk: T#id,
\* sk: T#META} and single(T).fromId(id) is the same pair; tenant(T).toKey is
\* {pk: TENANT#tenantId, sk: T#id}; hierarchy(T).toKey is {pk: T#parentId,
\* sk: T#id}; e.g. single("USER") maps id 42 to USER#42 / USER#META.
C17_KeyPatterns ==
    /\ (last.op \in {"keys.toKey", "keys.fromId"} /\ last.input.kind = "single") =>
          /\ last.ok
          /\ last.ret.val["pk"] = last.input.type \o "#" \o last.input.item["id"]
          /\ last.ret.val["sk"] = last.input.type \o "#META"
          /\ (last.input.type = "USER" /\ last.input.item["id"] = "42") =>
                last.ret.val = DodoKey("USER#42", "USER#META")
    /\ (last.op = "keys.toKey" /\ last.input.kind = "tenant") =>
          /\ last.ret.val["pk"] = "TENANT#" \o last.input.item["tenantId"]
          /\ last.ret.val["sk"] = last.input.type \o "#" \o last.input.item["id"]
          /\ (/\ last.input.type = "POST"
              /\ last.input.item["id"] = "p1"
              /\ last.input.item["tenantId"] = "t1") =>
                last.ret.val = DodoKey("TENANT#t1", "POST#p1")
    /\ (last.op = "keys.toKey" /\ last.input.kind = "hierarchy") =>
          /\ last.ret.val["pk"] = last.input.type \o "#" \o last.input.item["parentId"]
          /\ last.ret.val["sk"] = last.input.type \o "#" \o last.input.item["id"]

C17_Witness ==
    /\ last.op = "keys.fromId"
    /\ last.input.kind = "single"
    /\ last.input.type = "USER"
    /\ last.id = "42"
    /\ last.ret = Obj(toKeyOf("single", "USER", last.input.item))

(***************************************************************************)
(* C18                                                                     *)
(***************************************************************************)
\* the events of a call that reach the transport
StoreAccesses(log) == SelectSeq(log, LAMBDA e : e.layer = "transport")

\* the entity operations that derive the key from the id alone
ById == {"entity.get", "entity.update", "entity.delete"}

\* C18: fromId fails with UnsupportedReverseMapping for the tenant and the
\* hierarchy transformer and with NotImplemented for a custom transformer
\* without a reverse function, and returns the reverse function's result for
\* a custom transformer that has one; so entity get, update and delete on a
\* tenant- or hierarchy-keyed entity fail before any store access.
C18_ReverseMappingUnavailable ==
    /\ \A id \in Ids :
          /\ \A kind \in {"tenant", "hierarchy"} :
                ~fromId(kind, id).ok /\ fromId(kind, id).err = "UnsupportedReverseMapping"
          /\ ~fromId("customNoReverse", id).ok
          /\ fromId("customNoReverse", id).err = "NotImplemented"
          /\ fromId("custom", id).ok
          /\ fromId("custom", id).key = DodoKey("CUSTOM#" \o id, "META")
    /\ (last.op \in ById /\ config.keys \in {"tenant", "hierarchy"}) =>
          /\ ~last.ok
          /\ last.err = "UnsupportedReverseMapping"
          /\ StoreAccesses(last.log) = <<>>
          /\ DOMAIN table = last.pre
    /\ (last.op \in ById /\ config.keys = "customNoReverse") =>
          /\ ~last.ok
          /\ last.err = "NotImplemented"
          /\ StoreAccesses(last.log) = <<>>
    /\ (last.op \in ById /\ config.keys = "custom") =>
          /\ last.err \notin {"UnsupportedReverseMapping", "NotImplemented"}
          /\ StoreAccesses(last.log) # <<>>
          /\ StoreAccesses(last.log)[1].args[1] = Obj(DodoKey("CUSTOM#" \o last.id, "META"))

C18_Witness ==
    /\ last.op = "entity.update"
    /\ config.keys = "tenant"
    /\ ~last.ok
    /\ DOMAIN table # {}

(***************************************************************************)
(* C19                                                                     *)
(***************************************************************************)
\* the record at key as the facade presents it: the result of get(key)
RecordAt(tbl, key) == Spread(dodoGet(config, tbl, key).ret)

\* after is before overlaid with updates, the key fields taken from key
Overlaid(before, updates, key, after) ==
    /\ DOMAIN after = DOMAIN before \cup DOMAIN updates \cup {"pk", "sk"}
    /\ \A f \in DOMAIN updates \ {"pk", "sk"} : after[f] = updates[f]
    /\ \A f \in DOMAIN before \ (DOMAIN updates \cup {"pk", "sk"}) : after[f] = before[f]
    /\ after["pk"] = key["pk"]
    /\ after["sk"] = key["sk"]

\* C19: after a successful facade update(key, updates) on an existing record
\* R the record at key is R overlaid with updates: every field of updates
\* has the updates value, every other field of R keeps its value, pk and sk
\* are those of key even when updates carries pk or sk, and no record at
\* another key is changed.  Records are taken as the facade presents them;
\* with no transforming handler that is the stored record itself.
C19_UpdateOverlays ==
    [][(last'.op = "dodo.update" /\ last'.ok) =>
          /\ last'.key \in DOMAIN table
          /\ Overlaid(RecordAt(table, last'.key), Spread(last'.input), last'.key,
                      RecordAt(table', last'.key))
          /\ (\A i \in DOMAIN config.plugins : config.plugins[i] = "watch") =>
                Overlaid(table[last'.key], Spread(last'.input), last'.key,
                         table'[last'.key])
          /\ table'[last'.key]["pk"] = last'.key["pk"]
          /\ table'[last'.key]["sk"] = last'.key["sk"]
          /\ DOMAIN table' = DOMAIN table
          /\ \A k \in DOMAIN table \ {last'.key} : table'[k] = table[k]]_vars

C19_Witness ==
    /\ last.op = "dodo.update"
    /\ last.ok
    /\ last.input = Obj(Rec1("pk", "OTHER"))
    /\ last.key \in DOMAIN table
    /\ table[last.key]["pk"] = last.key["pk"]
    /\ table[last.key]["pk"] # "OTHER"

(***************************************************************************)
(* C20                                                                     *)
(***************************************************************************)
\* the positions in the log of a call at which an event of this kind stands
PositionsOf(log, layer, name) ==
    {i \in DOMAIN log : log[i].layer = layer /\ log[i].name = name}

\* every position of the first set precedes every position of the second
AllBefore(first, second) == \A i \in first, j \in second : i < j

ValidItems(items) == {i \in DOMAIN items : SchemaValid(items[i])}

\* the keys the creates of those items write
KeysOfItems(items) == {toKey(config.keys, Spread(items[i])) : i \in ValidItems(items)}

MatchingRecords(predicate) ==
    SelectSeq([i \in DOMAIN KeysToScan(table, EmptyObj) |->
                   Obj(Without(table[KeysToScan(table, EmptyObj)[i]], {"pk", "sk"}))],
              LAMBDA item : EveryEntry(predicate, item.val))

\* C22: find(predicate) returns exactly the records of the whole table whose
\* value for every field of predicate equals the supplied value, also when
\* the table is larger than one scan page, and findOne(predicate) returns
\* the first of them, or absent when there is none.
C22_FindReturnsMatches ==
    /\ last.op = "entity.find" =>
          /\ last.ok
          /\ last.ret = MatchingRecords(last.input.val)
    /\ last.op = "entity.findOne" =>
          /\ last.ok
          /\ last.ret = IF MatchingRecords(last.input.val) = <<>> THEN Null
                        ELSE MatchingRecords(last.input.val)[1]

(***************************************************************************)
(* C23                                                                     *)
(***************************************************************************)
\* the keys the condition checks of an item list address
CheckedKeys(items) ==
    {items[i].conditionCheck.key : i \in {j \in DOMAIN items : "conditionCheck" \in DOMAIN items[j]}}

\* the same item list with every condition check carrying another condition
WithCondition(items, condition) ==
    [i \in DOMAIN items |->
        IF "conditionCheck" \in DOMAIN items[i]
        THEN TxCheck(items[i].conditionCheck.key, condition)
        ELSE items[i]]

\* conditions a caller may give: true, false and malformed on the records
OtherConditions ==
    {StatusActive, [attribute |-> "name", eq |-> "n2"], [attribute |-> "id", exists |-> FALSE],
     [and |-> <<>>]}

\* the entries of the TransactWrite request a call sent
SentEntries(log) ==
    IF EventsOf(log, "transport", "TransactWrite") = <<>> THEN <<>>
    ELSE EventsOf(log, "transport", "TransactWrite")[1].args[1]

\* C23: a conditionCheck item is sent to the transport with a precondition
\* that depends only on its key (the record at that key exists); the
\* caller's condition is never compiled or sent, so the transaction has the
\* same outcome whatever condition the caller gave: it goes through when
\* every checked key exists and aborts only when a checked key is absent.
C23_ConditionCheckIsExistence ==
    [][last'.op = "dodo.transaction" =>
          /\ \A i \in DOMAIN SentEntries(last'.log) :
                "conditionCheck" \in DOMAIN last'.input[i] =>
                    SentEntries(last'.log)[i] =
                        TransactItem("ConditionCheck",
                                     last'.input[i].conditionCheck.key, Undefined)
          /\ \A condition \in OtherConditions :
                transaction(config, table, WithCondition(last'.input, condition)) =
                    transaction(config, table, last'.input)
          /\ (last'.err = "TransactionAborted") =>
                (~last'.ok /\ table' = table /\ ~(CheckedKeys(last'.input) \subseteq DOMAIN table))
          /\ (/\ SentEntries(last'.log) # <<>>
              /\ TransactValid(SentEntries(last'.log))) =>
                /\ last'.ok <=> CheckedKeys(last'.input) \subseteq DOMAIN table
                /\ ~last'.ok => last'.err = "TransactionAborted"]_vars

C23_Witness ==
    /\ last.op = "dodo.transaction"
    /\ last.ok
    /\ CheckedKeys(last.input) # {}
    /\ \A k \in CheckedKeys(last.input) :
          k \in last.pre /\ k \in DOMAIN table /\ ~Matches(StatusActive, table[k])
    /\ \E i \in DOMAIN last.input : "put" \in DOMAIN last.input[i]
    /\ DOMAIN table # last.pre

====
